---- MODULE Spec2Model ----
(***************************************************************************)
(* The plan pipeline of NTelligence: normalize_plan_json (app/utils.py),   *)
(* QueryPlan validation (app/models.py), compile_sql (app/compiler.py) and *)
(* the callers that hand the compiled statement to run_query.              *)
(*                                                                         *)
(* Python values are modelled as follows.                                  *)
(*   dict      a record; a key the dict lacks is absent from its DOMAIN,   *)
(*             and Get models dict.get                                     *)
(*   list      a sequence                                                  *)
(*   str       a string; None (in a slot that holds names) is the          *)
(*             sentinel None, which no universe of names contains          *)
(*   a value whose type the code inspects (a filter value, a limit, an     *)
(*   order index) is a tagged record [kind, ...]                           *)
(* The statement text is a sequence of pieces [k, t]: t is the exact text  *)
(* of the piece and k says where it came from (a literal of the f-string   *)
(* or the interpolated field).  Text(sql) is the Python string.            *)
(***************************************************************************)
EXTENDS Integers, Sequences, FiniteSets, TLC

VARIABLES
  pc,        \* where the caller stands
  caller,    \* the entry point: compiler_testing, run_prompt, run_real, compile_and_run
  todo,      \* prompts main's loop has still to run (1 for a single request)
  raw,       \* the producer's output for the request at hand
  plan,      \* the plan dict at hand (normalized, then validated and dumped)
  result,    \* what compile_sql returned or raised
  executed,  \* the run_query calls made for the request at hand
  done,      \* the stages that succeeded for the request at hand
  allowlist  \* the module-level dict ALLOWED of app/compiler.py as it stands

vars == <<pc, caller, todo, raw, plan, result, executed, done, allowlist>>

-----------------------------------------------------------------------------
(* Bounds of the model *)

\* longest dimensions list and longest measures list of the plans offered
MaxDims == 2

MaxMeasures == 2

\* longest filters list, and longest value list of an IN filter
MaxFilters == 2

MaxInLen == 2

\* limits offered run from -LimitSpan to 1000 + LimitSpan
LimitSpan == 3

\* compile_sql calls one process makes in a row
MaxCalls == 3

-----------------------------------------------------------------------------
(* app/compiler.py: module constants *)

ALLOWED ==
  [ employee        |-> <<"EmpID","EmpName","EngDt","TermDt","DepID","GenderID","RaceID","MgrID","DOB","PayRate">>,
    action          |-> <<"ActID","ActionID","EmpID","EffectiveDt">>,
    perf            |-> <<"PerfID","EmpID","Rating","PerfDate">>,
    join_emp_perf   |-> <<"EmpID","Department","GenderID","RaceID","PerfDate","Year","Rating">>,
    join_emp_action |-> <<"EmpID","Department","GenderID","RaceID","ActionDate","ActionID">> ]

_VALID_AGGS == {"sum","avg","min","max","count"}

_VALID_OPS == {"=","!=","<",">","<=",">=","LIKE","IN","BETWEEN","IS NULL","IS NOT NULL"}

-----------------------------------------------------------------------------
(* Python values *)

None == "<None>"

Range(s) == { s[i] : i \in DOMAIN s }

\* dict.get(k) for a slot that holds a string (None when the key is absent)
Get(d, k) == IF k \in DOMAIN d THEN d[k] ELSE None

\* dict.get(k) or [] for a slot that holds a list of dicts
GetList(d, k) == IF k \in DOMAIN d THEN d[k] ELSE <<>>

\* truthiness of a string slot: None and "" are falsy
Truthy(s) == s # None /\ s # ""

\* tagged values
PyMissing   == [kind |-> "missing"]
PyNone      == [kind |-> "none"]
PyInt(n)    == [kind |-> "int", n |-> n]
PyBool(b)   == [kind |-> "bool", b |-> b]
PyNumStr(n) == [kind |-> "numstr", n |-> n]        \* str(n), e.g. "50", "0", "-5"
PyText(s)   == [kind |-> "text", s |-> s]          \* a string int() cannot parse
PyFloat(n)  == [kind |-> "float", n |-> n]         \* a float with a fraction, n = trunc toward 0
PyEmptyList == [kind |-> "emptylist"]
PyScalar(a) == [kind |-> "scalar", items |-> <<a>>]
PyList(s)   == [kind |-> "list", items |-> s]

\* dict.get(k) for a tagged slot
GetVal(d, k) == IF k \in DOMAIN d THEN d[k] ELSE PyNone

\* bool(v) of a tagged value
TruthyVal(v) ==
  CASE v.kind \in {"missing", "none", "emptylist"} -> FALSE
    [] v.kind = "int"    -> v.n # 0
    [] v.kind = "bool"   -> v.b
    [] v.kind = "numstr" -> TRUE
    [] v.kind = "text"   -> v.s # ""
    [] v.kind = "float"  -> TRUE
    [] v.kind = "list"   -> v.items # <<>>
    [] OTHER             -> TRUE

\* int(v): [ok, n]; ok = FALSE when int() raises
IntOf(v) ==
  CASE v.kind = "int"    -> [ok |-> TRUE, n |-> v.n]
    [] v.kind = "bool"   -> [ok |-> TRUE, n |-> IF v.b THEN 1 ELSE 0]
    [] v.kind = "numstr" -> [ok |-> TRUE, n |-> v.n]
    [] v.kind = "float"  -> [ok |-> TRUE, n |-> v.n]
    [] OTHER             -> [ok |-> FALSE, n |-> 0]

\* str.lower() on the strings the model applies it to
Lower(s) ==
  CASE s = "AVG"   -> "avg"
    [] s = "Avg"   -> "avg"
    [] s = "COUNT" -> "count"
    [] s = "Count" -> "count"
    [] s = "SUM"   -> "sum"
    [] s = "MAX"   -> "max"
    [] s = "MIN"   -> "min"
    [] s = "COUNT_DISTINCT" -> "count_distinct"
    [] s = "Count_Distinct" -> "count_distinct"
    [] s = "MEDIAN" -> "median"
    [] s = "ASC"   -> "asc"
    [] s = "Asc"   -> "asc"
    [] s = "DESC"  -> "desc"
    [] s = "Desc"  -> "desc"
    [] s = "GTE"   -> "gte"
    [] s = "LTE"   -> "lte"
    [] s = "IN"    -> "in"
    [] s = "In"    -> "in"
    [] s = "BETWEEN" -> "between"
    [] s = "LIKE"  -> "like"
    [] s = "IS NULL" -> "is null"
    [] s = "IS NOT NULL" -> "is not null"
    [] s = "UP"    -> "up"
    [] OTHER       -> s

\* str.upper() on the strings the model applies it to
Upper(s) ==
  CASE s = "avg"   -> "AVG"
    [] s = "Avg"   -> "AVG"
    [] s = "count" -> "COUNT"
    [] s = "Count" -> "COUNT"
    [] s = "sum"   -> "SUM"
    [] s = "max"   -> "MAX"
    [] s = "min"   -> "MIN"
    [] s = "asc"   -> "ASC"
    [] s = "Asc"   -> "ASC"
    [] s = "desc"  -> "DESC"
    [] s = "Desc"  -> "DESC"
    [] s = "gte"   -> "GTE"
    [] s = "lte"   -> "LTE"
    [] s = "in"    -> "IN"
    [] s = "In"    -> "IN"
    [] s = "between" -> "BETWEEN"
    [] s = "like"  -> "LIKE"
    [] s = "is null" -> "IS NULL"
    [] s = "is not null" -> "IS NOT NULL"
    [] s = "up"    -> "UP"
    [] s = "median" -> "MEDIAN"
    [] s = "count_distinct" -> "COUNT_DISTINCT"
    [] OTHER       -> s

\* str.strip() on the strings the model applies it to
Strip(s) ==
  CASE s = "   "       -> ""
    [] s = " Year "    -> "Year"
    [] s = " n_rows "  -> "n_rows"
    [] OTHER           -> s

-----------------------------------------------------------------------------
(* Statement text *)

Tok(k, t) == [k |-> k, t |-> t]
Lit(t)    == Tok("lit", t)

RECURSIVE Text(_)
Text(toks) == IF toks = <<>> THEN "" ELSE Head(toks).t \o Text(Tail(toks))

\* sep.join(parts), each part a sequence of pieces
RECURSIVE Join(_, _)
Join(parts, sep) ==
  IF parts = <<>> THEN <<>>
  ELSE IF Len(parts) = 1 THEN parts[1]
  ELSE parts[1] \o <<Lit(sep)>> \o Join(Tail(parts), sep)

\* the insertion-ordered dict of bound parameters: d[key] = val
DictSet(d, key, val) ==
  IF \E i \in DOMAIN d : d[i].key = key
  THEN [i \in DOMAIN d |-> IF d[i].key = key THEN [key |-> key, val |-> val] ELSE d[i]]
  ELSE Append(d, [key |-> key, val |-> val])

Keys(d) == { d[i].key : i \in DOMAIN d }

Min(S) == CHOOSE x \in S : \A y \in S : x <= y

Ok(sql, params) == [ok |-> TRUE, err |-> "", sql |-> sql, params |-> params]
Raise(err)      == [ok |-> FALSE, err |-> err, sql |-> <<>>, params |-> <<>>]

-----------------------------------------------------------------------------
(* app/compiler.py: compile_sql *)

\* line 22: set(ALLOWED[table]), read when the call is made
Cols(table) == Range(allowlist[table])

\* lines 19-21
TableOk(p) == Truthy(Get(p, "table")) /\ Get(p, "table") \in DOMAIN allowlist

\* line 25: plan.get("dimensions", []) or []
DimsIn(p) ==
  IF "dimensions" \in DOMAIN p /\ TruthyVal(p.dimensions) THEN p.dimensions ELSE PyList(<<>>)

\* Dedup keeping every occurrence
Dedup_KeepAll(s) == s

\* lines 31-35: first-seen order is kept
Dedup(s) ==
  LET F[i \in 0..Len(s)] ==
        IF i = 0 THEN <<>>
        ELSE IF s[i] \in Range(F[i-1]) THEN F[i-1] ELSE Append(F[i-1], s[i])
  IN  F[Len(s)]

\* lines 26-30: "" when the dimensions pass
DimsError(p) ==
  IF DimsIn(p).kind # "list" THEN "dimensions must be a list"
  ELSE IF \E i \in DOMAIN DimsIn(p).items : DimsIn(p).items[i] \notin Cols(p.table)
       THEN "Invalid dimension"
       ELSE ""

\* line 48
MeasureAgg(m) == Lower(IF Truthy(Get(m, "agg")) THEN m.agg ELSE "")

\* MeasureError without the column check of line 51
MeasureError_NoColumnCheck(m, cols) ==
  IF MeasureAgg(m) \notin _VALID_AGGS THEN "Invalid aggregation" ELSE ""

\* lines 49-52: "" when the measure passes
MeasureError(m, cols) ==
  IF MeasureAgg(m) \notin _VALID_AGGS THEN "Invalid aggregation"
  ELSE IF Get(m, "column") # "*" /\ Get(m, "column") \notin cols
       THEN "Invalid column in measure"
       ELSE ""

\* line 53
MeasureAlias(m) ==
  IF Truthy(Get(m, "name")) THEN m.name
  ELSE MeasureAgg(m) \o "_" \o (IF m.column # "*" THEN m.column ELSE "all")

\* lines 54-55: f"{expr} AS {alias}"
MeasureSelect(m) ==
  <<Tok("agg", Upper(MeasureAgg(m))), Lit("(")>>
  \o (IF m.column = "*" THEN <<Lit("*")>> ELSE <<Tok("mcol", m.column)>>)
  \o <<Lit(")"), Lit(" AS "),
       Tok(IF Truthy(Get(m, "name")) THEN "alias" ELSE "derived", MeasureAlias(m))>>

\* line 57
MeasureSpec(m) == [agg |-> MeasureAgg(m), col |-> m.column, alias |-> MeasureAlias(m)]

\* line 65
FilterOp(f) == Upper(IF Truthy(Get(f, "op")) THEN f.op ELSE "")

\* FilterError testing the operator (line 70) before the column (line 68)
FilterError_OpBeforeColumn(f, cols) ==
  IF FilterOp(f) \notin _VALID_OPS THEN "Invalid operator"
  ELSE IF Get(f, "column") \notin cols THEN "Invalid column in filter"
  ELSE IF FilterOp(f) = "IN"
          /\ (GetVal(f, "value").kind # "list" \/ Len(GetVal(f, "value").items) = 0)
       THEN "IN requires a non-empty list"
  ELSE IF FilterOp(f) = "BETWEEN"
          /\ (GetVal(f, "value").kind # "list" \/ Len(GetVal(f, "value").items) # 2)
       THEN "BETWEEN requires [low, high]"
  ELSE ""

\* lines 68-71, 77-78, 87-88: "" when the filter passes
FilterError(f, cols) ==
  IF Get(f, "column") \notin cols THEN "Invalid column in filter"
  ELSE IF FilterOp(f) \notin _VALID_OPS THEN "Invalid operator"
  ELSE IF FilterOp(f) = "IN"
          /\ (GetVal(f, "value").kind # "list" \/ Len(GetVal(f, "value").items) = 0)
       THEN "IN requires a non-empty list"
  ELSE IF FilterOp(f) = "BETWEEN"
          /\ (GetVal(f, "value").kind # "list" \/ Len(GetVal(f, "value").items) # 2)
       THEN "BETWEEN requires [low, high]"
  ELSE ""

\* line 94: f"p{i}"
ScalarKey(i) == "p" \o ToString(i)

\* InKey named from the element index alone: f"p{j}"
InKey_NoPosition(i, j) == "p" \o ToString(j)

\* line 81: f"p{i}_{j}"
InKey(i, j) == "p" \o ToString(i) \o "_" \o ToString(j)

\* line 89: f"p{i}a", f"p{i}b"
LoKey(i) == "p" \o ToString(i) \o "a"

HiKey(i) == "p" \o ToString(i) \o "b"

Ph(key) == Tok("ph", ":" \o key)

\* FilterClause with a scalar value written into the text instead of bound
FilterClause_InlineValue(f, i) ==
  LET col == f.column
      op  == FilterOp(f)
      val == GetVal(f, "value")
  IN  IF op \in {"IS NULL", "IS NOT NULL"}
        THEN <<Tok("fcol", col), Lit(" "), Tok("op", op)>>
      ELSE IF op = "IN"
        THEN <<Tok("fcol", col), Lit(" IN (")>>
             \o Join([j \in 1..Len(val.items) |-> <<Ph(InKey(i, j-1))>>], ", ")
             \o <<Lit(")")>>
      ELSE IF op = "BETWEEN"
        THEN <<Tok("fcol", col), Lit(" BETWEEN "), Ph(LoKey(i)), Lit(" AND "), Ph(HiKey(i))>>
      ELSE IF val.kind = "scalar"
        THEN <<Tok("fcol", col), Lit(" "), Tok("op", op), Lit(" '"), Tok("value", val.items[1]), Lit("'")>>
      ELSE <<Tok("fcol", col), Lit(" "), Tok("op", op), Lit(" "), Ph(ScalarKey(i))>>

\* lines 73-96: the WHERE fragment of the filter at position i (0-based)
FilterClause(f, i) ==
  LET col == f.column
      op  == FilterOp(f)
      val == GetVal(f, "value")
  IN  IF op \in {"IS NULL", "IS NOT NULL"}
        THEN <<Tok("fcol", col), Lit(" "), Tok("op", op)>>
      ELSE IF op = "IN"
        THEN <<Tok("fcol", col), Lit(" IN (")>>
             \o Join([j \in 1..Len(val.items) |-> <<Ph(InKey(i, j-1))>>], ", ")
             \o <<Lit(")")>>
      ELSE IF op = "BETWEEN"
        THEN <<Tok("fcol", col), Lit(" BETWEEN "), Ph(LoKey(i)), Lit(" AND "), Ph(HiKey(i))>>
      ELSE <<Tok("fcol", col), Lit(" "), Tok("op", op), Lit(" "), Ph(ScalarKey(i))>>

\* FilterParams with the two BETWEEN bounds exchanged
FilterParams_SwapBetween(params, f, i) ==
  LET op  == FilterOp(f)
      val == GetVal(f, "value")
      InLoop[j \in 0..Len(val.items)] ==
        IF j = 0 THEN params
        ELSE DictSet(InLoop[j-1], InKey(i, j-1), PyScalar(val.items[j]))
  IN  IF op \in {"IS NULL", "IS NOT NULL"} THEN params
      ELSE IF op = "IN" THEN InLoop[Len(val.items)]
      ELSE IF op = "BETWEEN"
        THEN DictSet(DictSet(params, LoKey(i), PyScalar(val.items[2])),
                     HiKey(i), PyScalar(val.items[1]))
      ELSE DictSet(params, ScalarKey(i), val)

\* lines 73-96: the parameter mapping after the filter at position i
FilterParams(params, f, i) ==
  LET op  == FilterOp(f)
      val == GetVal(f, "value")
      InLoop[j \in 0..Len(val.items)] ==
        IF j = 0 THEN params
        ELSE DictSet(InLoop[j-1], InKey(i, j-1), PyScalar(val.items[j]))
  IN  IF op \in {"IS NULL", "IS NOT NULL"} THEN params
      ELSE IF op = "IN" THEN InLoop[Len(val.items)]
      ELSE IF op = "BETWEEN"
        THEN DictSet(DictSet(params, LoKey(i), PyScalar(val.items[1])),
                     HiKey(i), PyScalar(val.items[2]))
      ELSE DictSet(params, ScalarKey(i), val)

\* lines 63-96: the loop over enumerate(filters)
AllParams(filters) ==
  LET Loop[n \in 0..Len(filters)] ==
        IF n = 0 THEN <<>> ELSE FilterParams(Loop[n-1], filters[n], n-1)
  IN  Loop[Len(filters)]

\* lines 104-108
alias_for(specs, agg, col) ==
  IF \E i \in DOMAIN specs : specs[i].agg = agg /\ specs[i].col = col
  THEN specs[Min({ i \in DOMAIN specs : specs[i].agg = agg /\ specs[i].col = col })].alias
  ELSE None

\* line 127: the strings the pattern ^\s*([a-zA-Z]+)\s*\(\s*([\w*]+)\s*\)\s*$ matches,
\* among those the model offers as expr
ReWords == {"avg", "AVG", "count", "COUNT", "sum", "median"}

ReArgs == {"*", "Rating", "Year", "EmpID", "secret"}

ReMatches(s) ==
  { ac \in ReWords \X ReArgs :
      s = ac[1] \o "(" \o ac[2] \o ")" \/ s = ac[1] \o " ( " \o ac[2] \o " )" }

\* lines 119-132: the name stage 2 yields (None when it yields nothing)
ExprStage(o, allowed, specs) ==
  LET expr == Get(o, "expr")
      s    == Strip(expr)
  IN  IF expr = None \/ s = "" THEN None
      ELSE IF s \in allowed THEN s
      ELSE IF ReMatches(s) # {}
        THEN LET m     == CHOOSE ac \in ReMatches(s) : TRUE
                 guess == alias_for(specs, Lower(m[1]), m[2])
             IN  IF Truthy(guess) THEN guess ELSE None
      ELSE None

\* PairStage without the lower-casing of line 136
PairStage_CaseSensitive(o, specs) ==
  IF Truthy(Get(o, "column")) /\ Truthy(Get(o, "agg"))
  THEN LET guess == alias_for(specs, o.agg, o.column)
       IN  IF Truthy(guess) THEN guess ELSE None
  ELSE None

\* lines 135-138
PairStage(o, specs) ==
  IF Truthy(Get(o, "column")) /\ Truthy(Get(o, "agg"))
  THEN LET guess == alias_for(specs, Lower(o.agg), o.column)
       IN  IF Truthy(guess) THEN guess ELSE None
  ELSE None

\* lines 142-148
IndexStage(o, measure_aliases) ==
  IF "index" \in DOMAIN o /\ IntOf(o.index).ok
     /\ 0 <= IntOf(o.index).n /\ IntOf(o.index).n < Len(measure_aliases)
  THEN measure_aliases[IntOf(o.index).n + 1]
  ELSE None

\* lines 115-152: the name the cascade settles on, before the check of line 154
OrderName(o, allowed, measure_aliases, specs) ==
  LET n1 == Get(o, "name")
      n2 == IF ~Truthy(n1) THEN ExprStage(o, allowed, specs) ELSE n1
      n3 == IF ~Truthy(n2) THEN PairStage(o, specs) ELSE n2
      n4 == IF ~Truthy(n3) THEN IndexStage(o, measure_aliases) ELSE n3
  IN  IF ~Truthy(n4) THEN measure_aliases[1] ELSE n4

\* line 116
OrderDir(o) == Upper(IF Truthy(Get(o, "dir")) THEN o.dir ELSE "DESC")

\* OrderError without the key check of line 154
OrderError_NoKeyCheck(o, allowed, measure_aliases, specs) ==
  IF OrderDir(o) \notin {"ASC", "DESC"} THEN "order_by.dir must be ASC or DESC" ELSE ""

\* lines 154-158: "" when the entry passes
OrderError(o, allowed, measure_aliases, specs) ==
  IF OrderName(o, allowed, measure_aliases, specs) \notin allowed THEN "Invalid order key"
  ELSE IF OrderDir(o) \notin {"ASC", "DESC"} THEN "order_by.dir must be ASC or DESC"
  ELSE ""

\* lines 110-160: what the call returns, or the error it raises
normalize_order_item(o, allowed, measure_aliases, specs) ==
  [err       |-> OrderError(o, allowed, measure_aliases, specs),
   name      |-> OrderName(o, allowed, measure_aliases, specs),
   direction |-> OrderDir(o)]

\* line 162: plan.get("order_by") or plan.get("order") or []
RawOrder(p) ==
  IF GetList(p, "order_by") # <<>> THEN p.order_by ELSE GetList(p, "order")

\* CompileLimit with a value below 1 clamped to 1 instead of reset to 100
CompileLimit_ClampToOne(p) ==
  LET given == IF "limit" \in DOMAIN p THEN p.limit ELSE PyInt(100)
      v     == IF TruthyVal(given) THEN given ELSE PyInt(100)
      limit == IF IntOf(v).ok THEN IntOf(v).n ELSE 100
      l2    == IF limit < 1 THEN 1 ELSE limit
  IN  IF l2 < 1000 THEN l2 ELSE 1000

\* lines 170-176
CompileLimit(p) ==
  LET given == IF "limit" \in DOMAIN p THEN p.limit ELSE PyInt(100)
      v     == IF TruthyVal(given) THEN given ELSE PyInt(100)
      limit == IF IntOf(v).ok THEN IntOf(v).n ELSE 100
      l2    == IF limit < 1 THEN 100 ELSE limit
  IN  IF l2 < 1000 THEN l2 ELSE 1000

\* lines 18-180
compile_sql(p) ==
  IF ~TableOk(p) THEN Raise("Invalid table")
  ELSE IF DimsError(p) # "" THEN Raise(DimsError(p))
  ELSE
  LET table    == p.table
      cols     == Cols(table)
      dims     == Dedup(DimsIn(p).items)
      measures == GetList(p, "measures")
      badM     == { i \in DOMAIN measures : MeasureError(measures[i], cols) # "" }
  IN
  IF measures = <<>> THEN Raise("At least one measure is required")
  ELSE IF badM # {} THEN Raise(MeasureError(measures[Min(badM)], cols))
  ELSE
  LET sel_parts       == [i \in DOMAIN dims |-> <<Tok("dim", dims[i])>>]
                         \o [i \in DOMAIN measures |-> MeasureSelect(measures[i])]
      measure_aliases == [i \in DOMAIN measures |-> MeasureAlias(measures[i])]
      measure_specs   == [i \in DOMAIN measures |-> MeasureSpec(measures[i])]
      filters         == GetList(p, "filters")
      badF            == { i \in DOMAIN filters : FilterError(filters[i], cols) # "" }
  IN
  IF badF # {} THEN Raise(FilterError(filters[Min(badF)], cols))
  ELSE
  LET where_clauses == [i \in DOMAIN filters |-> FilterClause(filters[i], i-1)]
      params        == AllParams(filters)
      where_sql     == IF where_clauses # <<>>
                       THEN <<Lit(" WHERE ")>> \o Join(where_clauses, " AND ") ELSE <<>>
      group_sql     == IF dims # <<>>
                       THEN <<Lit(" GROUP BY ")>>
                            \o Join([i \in DOMAIN dims |-> <<Tok("dim", dims[i])>>], ", ")
                       ELSE <<>>
      allowed       == Range(dims) \cup Range(measure_aliases)
      raw_order     == RawOrder(p)
      items         == [i \in DOMAIN raw_order |->
                          normalize_order_item(raw_order[i], allowed, measure_aliases, measure_specs)]
      badO          == { i \in DOMAIN raw_order : items[i].err # "" }
  IN
  IF badO # {} THEN Raise(items[Min(badO)].err)
  ELSE
  LET order_parts == [i \in DOMAIN raw_order |->
                        <<Tok("okey", items[i].name), Lit(" "), Tok("dir", items[i].direction)>>]
      order_sql   == IF order_parts # <<>>
                     THEN <<Lit(" ORDER BY ")>> \o Join(order_parts, ", ") ELSE <<>>
      limit_sql   == <<Lit(" LIMIT "), Tok("limit", ToString(CompileLimit(p)))>>
  IN  Ok(<<Lit("SELECT ")>> \o Join(sel_parts, ", ") \o <<Lit(" FROM "), Tok("table", table)>>
         \o where_sql \o group_sql \o order_sql \o limit_sql,
         params)

\* compiler_testing.py: the plan of the repository's own test call
TestPlan ==
  [table |-> "join_emp_perf", intent |-> "aggregate",
   dimensions |-> PyList(<<"Year">>),
   measures |-> <<[name |-> "avg_rating", agg |-> "avg", column |-> "Rating"]>>,
   filters |-> <<>>,
   order_by |-> <<[expr |-> "Year", dir |-> "asc"]>>,
   limit |-> PyInt(10)]

-----------------------------------------------------------------------------
(* app/utils.py: normalize_plan_json *)

\* d[k] = v
SetKey(d, k, v) == [x \in DOMAIN d \cup {k} |-> IF x = k THEN v ELSE d[x]]

\* d.pop(k)
DelKey(d, k) == [x \in DOMAIN d \ {k} |-> d[x]]

\* line 11: "CASE WHEN" in str(column), on the strings the model offers
HasCaseWhen(s) == s \in {"CASE WHEN ActionID = 3 THEN 1 END", "SUM(CASE WHEN x THEN 1 END)"}

\* NormMeasure without the downgrade of count_distinct (lines 7-9)
NormMeasure_KeepDistinct(m) ==
  IF HasCaseWhen(IF "column" \in DOMAIN m THEN m.column ELSE "")
  THEN SetKey(m, "column", "ActionID") ELSE m

\* lines 6-12
NormMeasure(m) ==
  LET m1 == IF Lower(IF "agg" \in DOMAIN m THEN m.agg ELSE "") = "count_distinct"
            THEN SetKey(m, "agg", "count") ELSE m
  IN  IF HasCaseWhen(IF "column" \in DOMAIN m1 THEN m1.column ELSE "")
      THEN SetKey(m1, "column", "ActionID") ELSE m1

\* NormOp comparing the raw op as written, without lower()
NormOp_NoLowerCase(f) ==
  LET op == IF "op" \in DOMAIN f THEN f.op ELSE ""
  IN  IF op = "gte" THEN ">="
      ELSE IF op = "lte" THEN "<="
      ELSE IF op = "in" THEN "IN"
      ELSE IF op = "between" THEN "BETWEEN"
      ELSE Upper(IF "op" \in DOMAIN f THEN f.op ELSE "")

\* lines 22-28
NormOp(f) ==
  LET op == Lower(IF "op" \in DOMAIN f THEN f.op ELSE "")
  IN  IF op = "gte" THEN ">="
      ELSE IF op = "lte" THEN "<="
      ELSE IF op = "in" THEN "IN"
      ELSE IF op = "between" THEN "BETWEEN"
      ELSE Upper(IF "op" \in DOMAIN f THEN f.op ELSE "")

\* lines 15-28
NormFilter(f) ==
  LET f1 == IF "col" \in DOMAIN f THEN DelKey(SetKey(f, "column", f.col), "col") ELSE f
      f2 == IF "expr" \in DOMAIN f1 THEN DelKey(SetKey(f1, "column", f1.expr), "expr") ELSE f1
      f3 == IF "val" \in DOMAIN f2 THEN DelKey(SetKey(f2, "value", f2.val), "val") ELSE f2
  IN  SetKey(f3, "op", NormOp(f3))

\* lines 1-34, for output json.loads parses to d
normalize_plan_json(d) ==
  LET d1 == IF "measures" \in DOMAIN d
            THEN [d EXCEPT !.measures = [i \in DOMAIN d.measures |-> NormMeasure(d.measures[i])]]
            ELSE d
      d2 == IF "filters" \in DOMAIN d1
            THEN [d1 EXCEPT !.filters = [i \in DOMAIN d1.filters |-> NormFilter(d1.filters[i])]]
            ELSE d1
  IN  IF "limit" \notin DOMAIN d2 \/ d2.limit = PyNone THEN SetKey(d2, "limit", PyInt(100)) ELSE d2

-----------------------------------------------------------------------------
(* app/models.py: QueryPlan *)

\* line 9
MeasureAggs == {"sum", "avg", "min", "max", "count", "count_distinct"}

\* line 14
FilterOps == {"=", "!=", "<", ">", "<=", ">=", "IN", "BETWEEN", "LIKE", "IS NULL", "IS NOT NULL"}

\* line 27
PlanTables == {"employee", "action", "perf", "join_emp_perf", "join_emp_action"}

\* line 28
PlanIntents == {"aggregate", "select", "topk"}

\* _coerce_limit without the clamp of lines 48-49
_coerce_limit_NoUpperClamp(v) ==
  IF v.kind \in {"none", "emptylist"} \/ (v.kind = "text" /\ v.s = "")
     \/ (v.kind \in {"int", "numstr"} /\ v.n = 0) \/ (v.kind = "bool" /\ ~v.b)
    THEN 100
  ELSE IF ~IntOf(v).ok THEN 100
  ELSE IF IntOf(v).n < 1 THEN 100
  ELSE IntOf(v).n

\* lines 36-50: _coerce_limit
_coerce_limit(v) ==
  IF v.kind \in {"none", "emptylist"} \/ (v.kind = "text" /\ v.s = "")
     \/ (v.kind \in {"int", "numstr"} /\ v.n = 0) \/ (v.kind = "bool" /\ ~v.b)
    THEN 100
  ELSE IF ~IntOf(v).ok THEN 100
  ELSE IF IntOf(v).n < 1 THEN 100
  ELSE IF IntOf(v).n > 1000 THEN 1000
  ELSE IntOf(v).n

\* lines 7-10: the Measure fields type-check
MeasureValid(m) ==
  /\ {"name", "agg", "column"} \subseteq DOMAIN m
  /\ m.agg \in MeasureAggs

\* lines 12-15
FilterValid(f) ==
  /\ {"column", "op"} \subseteq DOMAIN f
  /\ f.op \in FilterOps

\* lines 17-19: the Literal is checked before normalize_dir runs (mode='after')
OrderValid(o) == "dir" \in DOMAIN o => o.dir \in {"asc", "desc"}

\* lines 26-34: the field validation of QueryPlan
FieldsValid(d) ==
  /\ "table" \in DOMAIN d /\ d.table \in PlanTables
  /\ "intent" \in DOMAIN d => d.intent \in PlanIntents
  /\ "dimensions" \in DOMAIN d => d.dimensions.kind = "list"
  /\ "measures" \in DOMAIN d
  /\ \A i \in DOMAIN d.measures : MeasureValid(d.measures[i])
  /\ \A i \in DOMAIN GetList(d, "filters") : FilterValid(d.filters[i])
  /\ \A i \in DOMAIN GetList(d, "order_by") : OrderValid(d.order_by[i])

\* lines 17-24: the Order built from a raw entry (keys other than expr and dir
\* are ignored), with normalize_dir applied
OrderOf(o) ==
  [expr |-> Get(o, "expr"), dir |-> Lower(IF "dir" \in DOMAIN o THEN o.dir ELSE "desc")]

\* NormalizeOrder putting the default entry in front of the given entries
\* instead of using it only when there is none
NormalizeOrder_PrependDefault(orders, measures) ==
  LET first_alias == measures[1].name
      filled == <<[expr |-> first_alias, dir |-> "desc"]>> \o orders
  IN  [i \in DOMAIN filled |->
         [expr |-> IF Truthy(filled[i].expr) THEN filled[i].expr ELSE first_alias,
          dir  |-> filled[i].dir]]

\* lines 58-64: the order_by of the validated plan
NormalizeOrder(orders, measures) ==
  LET first_alias == measures[1].name
      filled == IF orders = <<>> THEN <<[expr |-> first_alias, dir |-> "desc"]>> ELSE orders
  IN  [i \in DOMAIN filled |->
         [expr |-> IF Truthy(filled[i].expr) THEN filled[i].expr ELSE first_alias,
          dir  |-> filled[i].dir]]

\* lines 52-56: QueryPlan.model_validate(d) succeeds
ValidateOk(d) == FieldsValid(d) /\ d.measures # <<>>

\* QueryPlan.model_validate(d).model_dump(), for d with ValidateOk(d)
ValidatedDump(d) ==
  LET measures == [i \in DOMAIN d.measures |->
                     [name |-> d.measures[i].name, agg |-> d.measures[i].agg,
                      column |-> d.measures[i].column]]
  IN  [table      |-> d.table,
       intent     |-> IF "intent" \in DOMAIN d THEN d.intent ELSE "aggregate",
       dimensions |-> IF "dimensions" \in DOMAIN d THEN d.dimensions ELSE PyList(<<>>),
       measures   |-> measures,
       filters    |-> [i \in DOMAIN GetList(d, "filters") |->
                         [column |-> d.filters[i].column, op |-> d.filters[i].op,
                          value |-> GetVal(d.filters[i], "value")]],
       order_by   |-> NormalizeOrder([i \in DOMAIN GetList(d, "order_by") |-> OrderOf(d.order_by[i])],
                                     measures),
       limit      |-> PyInt(IF "limit" \in DOMAIN d THEN _coerce_limit(d.limit) ELSE 100)]

-----------------------------------------------------------------------------
(* Plans offered to compile_sql by a direct call, as compiler_testing.py   *)
(* makes it: the dict is whatever the caller wrote.                        *)

SeqsUpTo(S, n) == UNION { [1..k -> S] : k \in 0..n }

NoResult == [ok |-> FALSE, err |-> "not called", sql |-> <<>>, params |-> <<>>]

\* a name no table of ALLOWED has, and text a hostile producer would send
Hostile == "x FROM employee; --"

\* --- tables, dimensions, measure and filter columns in and out of ALLOWED
AllowTables == {"join_emp_perf", "employee", "users"}

AllowDimNames == {"Year", "secret"}

AllowMeasures ==
  { [agg |-> "count", column |-> "*"],
    [name |-> "n_rows", agg |-> "COUNT", column |-> "*"],
    [name |-> Hostile, agg |-> "avg", column |-> "Rating"],
    [name |-> "m", agg |-> "avg", column |-> "secret"],
    [agg |-> "median", column |-> "secret"],
    [agg |-> "sum", column |-> "Rating"] }

AllowFilters ==
  { <<>>,
    <<[column |-> "Year", op |-> "=", value |-> PyScalar("2020")]>>,
    <<[column |-> "secret", op |-> "=", value |-> PyScalar("2020")]>> }

AllowPlans ==
  { [table |-> t, dimensions |-> PyList(d), measures |-> m, filters |-> f]
      : t \in AllowTables, d \in SeqsUpTo(AllowDimNames, MaxDims),
        m \in SeqsUpTo(AllowMeasures, MaxMeasures), f \in AllowFilters }
  \cup
  { [dimensions |-> PyList(d), measures |-> <<[agg |-> "count", column |-> "*"]>>]
      : d \in SeqsUpTo(AllowDimNames, MaxDims) }

\* --- filters
Atoms == {"a", "b"}

FilterDicts ==
  { [column |-> "Year", op |-> "=", value |-> PyScalar(a)] : a \in Atoms }
  \cup { [column |-> "Year", op |-> "in", value |-> PyList(l)] : l \in SeqsUpTo(Atoms, MaxInLen) }
  \cup { [column |-> "Rating", op |-> "BETWEEN", value |-> PyList(l)]
           : l \in {<<"a">>, <<"a", "b">>, <<"b", "a">>} }
  \cup { [column |-> "Rating", op |-> "like", value |-> PyList(<<"a", "b">>)],
         [column |-> "Rating", op |-> "!="],
         [column |-> "EmpID", op |-> "IS NULL"],
         [column |-> "EmpID", op |-> "is not null", value |-> PyScalar("a")],
         [column |-> "Year", op |-> "IN", value |-> PyScalar("a")],
         [column |-> "Year", op |-> "<>", value |-> PyScalar("a")],
         [column |-> "secret", op |-> "=", value |-> PyScalar("a")] }

FilterPlans ==
  { [TestPlan EXCEPT !.filters = f] : f \in SeqsUpTo(FilterDicts, MaxFilters) }

\* --- order_by
OrderMeasures ==
  { <<[name |-> "avg_rating", agg |-> "avg", column |-> "Rating"]>>,
    <<[agg |-> "count", column |-> "*"], [name |-> "n_rows", agg |-> "COUNT", column |-> "*"]>>,
    <<[name |-> "avg(Rating)", agg |-> "sum", column |-> "Rating"],
      [name |-> "avg_rating", agg |-> "AVG", column |-> "Rating"]>> }

\* every dict over the keys name, expr, column+agg, index, dir with these values
OrderNames == {None, "", "avg_rating", "zz"}

OrderExprs == {None, " Year ", "avg(Rating)", "COUNT ( * )", "Rating; DROP TABLE x"}

OrderPairs == {<<None, None>>, <<"Rating", "AVG">>, <<"secret", "avg">>}

OrderIndexes == {PyMissing, PyInt(1), PyInt(5), PyText("x")}

OrderDirs == {None, "Asc", "up"}

\* the dict with exactly the keys that are given
OrderDict(n, e, ca, ix, d) ==
  LET ks == (IF n # None THEN {"name"} ELSE {}) \cup (IF e # None THEN {"expr"} ELSE {})
            \cup (IF ca[1] # None THEN {"column", "agg"} ELSE {})
            \cup (IF d # None THEN {"dir"} ELSE {})
      strs == [k \in ks |->
                 CASE k = "name" -> n [] k = "expr" -> e [] k = "column" -> ca[1]
                   [] k = "agg" -> ca[2] [] OTHER -> d]
  IN  IF ix = PyMissing THEN strs
      ELSE [k \in ks \cup {"index"} |-> IF k = "index" THEN ix ELSE strs[k]]

OrderDicts ==
  { OrderDict(n, e, ca, ix, d)
      : n \in OrderNames, e \in OrderExprs, ca \in OrderPairs, ix \in OrderIndexes, d \in OrderDirs }

OrderPlans ==
  { [table |-> "join_emp_perf", dimensions |-> PyList(d), measures |-> m, order_by |-> <<o>>]
      : d \in {<<>>, <<"Year", "Year">>}, m \in OrderMeasures, o \in OrderDicts }
  \cup
  { [table |-> "join_emp_perf", measures |-> m, order |-> <<o, [expr |-> "avg(Rating)"]>>]
      : m \in OrderMeasures,
        o \in {OrderDict(None, None, <<None, None>>, PyMissing, None),
               OrderDict("zz", "avg(Rating)", <<None, None>>, PyMissing, "Asc"),
               OrderDict(None, None, <<"Rating", "AVG">>, PyInt(1), "up")} }

\* --- limit
LimitInts == (0 - LimitSpan) .. (1000 + LimitSpan)

LimitValues ==
  { PyInt(n) : n \in LimitInts } \cup { PyNumStr(n) : n \in LimitInts }
  \cup { PyFloat(n) : n \in LimitInts }
  \cup { PyNone, PyBool(TRUE), PyBool(FALSE), PyText("abc"), PyText(""), PyEmptyList }

LimitPlans ==
  { [TestPlan EXCEPT !.limit = v] : v \in LimitValues }
  \cup { [table |-> "employee", measures |-> <<[agg |-> "count", column |-> "*"]>>] }

-----------------------------------------------------------------------------
(* compiler_testing.py: one call of compile_sql on the plan at hand *)

InitDirect(plans) ==
  /\ pc = "call"
  /\ caller = "compiler_testing"
  /\ todo = 1
  /\ raw = <<>>
  /\ plan \in plans
  /\ result = NoResult
  /\ executed = <<>>
  /\ done = {}
  /\ allowlist = ALLOWED

\* CallCompile writing the deduplicated dimensions back into the plan it
\* was given
CallCompile_DedupInPlace ==
  /\ pc = "call"
  /\ caller = "compiler_testing"
  /\ result' = compile_sql(plan)
  /\ pc' = IF result'.ok THEN "returned" ELSE "raised"
  /\ plan' = IF result'.ok /\ "dimensions" \in DOMAIN plan
             THEN [plan EXCEPT !.dimensions = PyList(Dedup(plan.dimensions.items))]
             ELSE plan
  /\ UNCHANGED <<caller, todo, raw, executed, done, allowlist>>

\* compiler_testing.py line 2: sql, params = compile_sql({...})
CallCompile ==
  /\ pc = "call"
  /\ caller = "compiler_testing"
  /\ result' = compile_sql(plan)
  /\ pc' = IF result'.ok THEN "returned" ELSE "raised"
  /\ UNCHANGED <<caller, todo, raw, plan, executed, done, allowlist>>

NextDirect == CallCompile

InitAllow == InitDirect(AllowPlans)

InitFilter == InitDirect(FilterPlans)

InitOrder == InitDirect(OrderPlans)

InitLimit == InitDirect(LimitPlans)

SpecAllow == InitAllow /\ [][NextDirect]_vars

SpecFilter == InitFilter /\ [][NextDirect]_vars

SpecOrder == InitOrder /\ [][NextDirect]_vars

SpecLimit == InitLimit /\ [][NextDirect]_vars

-----------------------------------------------------------------------------
(* Reading a compiled statement *)

\* the texts of the pieces of kind k, in statement order
Pieces(sql, k) ==
  LET F[i \in 0..Len(sql)] ==
        IF i = 0 THEN <<>>
        ELSE IF sql[i].k = k THEN Append(F[i-1], sql[i].t) ELSE F[i-1]
  IN  F[Len(sql)]

Called == pc \in {"returned", "raised"}

-----------------------------------------------------------------------------
(* C1: allowlist soundness *)

PlanDims(p) == IF DimsIn(p).kind = "list" THEN Range(DimsIn(p).items) ELSE {}

PlanMeasureCols(p) == { GetList(p, "measures")[i].column : i \in DOMAIN GetList(p, "measures") } \ {"*"}

PlanFilterCols(p) == { GetList(p, "filters")[i].column : i \in DOMAIN GetList(p, "filters") }

PlanInAllowlist(p) ==
  /\ Get(p, "table") \in DOMAIN ALLOWED
  /\ PlanDims(p) \cup PlanMeasureCols(p) \cup PlanFilterCols(p) \subseteq Range(ALLOWED[p.table])

\* the plan has no defect other than names outside the allowlist
OnlyAllowlistDefects(p) ==
  /\ DimsIn(p).kind = "list"
  /\ GetList(p, "measures") # <<>>
  /\ \A i \in DOMAIN GetList(p, "measures") : Lower(p.measures[i].agg) \in _VALID_AGGS
  /\ \A i \in DOMAIN GetList(p, "filters") : FilterOp(p.filters[i]) \in {"=", "IS NULL"}

-----------------------------------------------------------------------------
(* C3: every plan-supplied string in the statement was checked against the *)
(* Schema Allowlist                                                        *)

\* C3: in a compiled statement the table is a table of the Schema Allowlist,
\* every dimension, measure column, measure alias taken from a measure's name,
\* filter column and order-by key is a permitted column of the plan's table,
\* and all other plan-derived text is an aggregation keyword, an operator, a
\* direction keyword or a limit in 1..1000.
C3_EmittedNamesAllowlisted ==
  (Called /\ result.ok) =>
    \A i \in DOMAIN result.sql :
      LET k == result.sql[i].k
          t == result.sql[i].t
      IN  /\ k = "table" => t \in DOMAIN ALLOWED
          /\ k \in {"dim", "mcol", "alias", "fcol", "okey"} => t \in Range(ALLOWED[plan.table])
          /\ k = "agg" => t \in {"SUM", "AVG", "MIN", "MAX", "COUNT"}
          /\ k = "op" => t \in _VALID_OPS
          /\ k = "dir" => t \in {"ASC", "DESC"}
          /\ k = "limit" => t \in { ToString(n) : n \in 1..1000 }

-----------------------------------------------------------------------------
(* C2, C9: order-by resolution *)

\* the allowed-output set of a plan: its dimensions and its measures' aliases
AliasAt(p, i) ==
  IF "name" \in DOMAIN p.measures[i] /\ p.measures[i].name # ""
  THEN p.measures[i].name
  ELSE Lower(p.measures[i].agg) \o "_"
       \o (IF p.measures[i].column = "*" THEN "all" ELSE p.measures[i].column)

PlanAliases(p) == { AliasAt(p, i) : i \in DOMAIN p.measures }

PlanOutputs(p) == PlanDims(p) \cup PlanAliases(p)

\* C2: in every compiled statement each order-by entry of the plan contributes
\* one ORDER BY key, and every key is a deduplicated dimension or a measure
\* alias of that plan, so an expr that is neither never reaches the statement.
C2_OrderByAliasOnly ==
  (Called /\ result.ok) =>
    /\ Len(Pieces(result.sql, "okey")) = Len(RawOrder(plan))
    /\ Range(Pieces(result.sql, "okey")) \subseteq PlanOutputs(plan)

\* an entry whose expr is raw text outside the allowed-output set was compiled
C2_Witness ==
  /\ pc = "returned"
  /\ \E i \in DOMAIN RawOrder(plan) :
       /\ Get(RawOrder(plan)[i], "expr") = "Rating; DROP TABLE x"
       /\ ~Truthy(Get(RawOrder(plan)[i], "name"))

\* the alias of the first measure whose (aggregation, column) is (agg, col)
FirstAliasOf(p, agg, col) ==
  LET hits == { i \in DOMAIN p.measures :
                  Lower(p.measures[i].agg) = agg /\ p.measures[i].column = col }
  IN  IF hits = {} THEN None
      ELSE AliasAt(p, Min(hits))

\* what stages (b) to (e) of the cascade yield for entry o: the first stage
\* that yields a name decides
LaterStages(p, o) ==
  LET e     == IF "expr" \in DOMAIN o THEN Strip(o.expr) ELSE ""
      call  == { ac \in ReWords \X ReArgs :
                   e = ac[1] \o "(" \o ac[2] \o ")" \/ e = ac[1] \o " ( " \o ac[2] \o " )" }
      b     == IF e = "" THEN None
               ELSE IF e \in PlanOutputs(p) THEN e
               ELSE IF call = {} THEN None
               ELSE LET ac == CHOOSE x \in call : TRUE IN FirstAliasOf(p, Lower(ac[1]), ac[2])
      c     == IF "column" \in DOMAIN o /\ "agg" \in DOMAIN o
               THEN FirstAliasOf(p, Lower(o.agg), o.column) ELSE None
      d     == IF "index" \in DOMAIN o /\ IntOf(o.index).ok
                  /\ IntOf(o.index).n \in 0..(Len(p.measures) - 1)
               THEN AliasAt(p, IntOf(o.index).n + 1)
               ELSE None
      first == AliasAt(p, 1)
  IN  IF b # None THEN b ELSE IF c # None THEN c ELSE IF d # None THEN d ELSE first

DirsValid(p) ==
  \A i \in DOMAIN RawOrder(p) :
    "dir" \in DOMAIN RawOrder(p)[i] => Lower(RawOrder(p)[i].dir) \in {"asc", "desc"}

HasName(o) == "name" \in DOMAIN o /\ o.name # ""

\* C9 as claimed: an explicit name decides only if it is in the allowed-output
\* set, otherwise the entry falls through to stages (b) to (e); as stage (e)
\* always yields an alias, no entry fails with an invalid order key.
C9_CascadeFallsThroughBadName ==
  (Called /\ DirsValid(plan)) =>
    /\ result.ok
    /\ Pieces(result.sql, "okey") =
         [i \in DOMAIN RawOrder(plan) |->
            LET o == RawOrder(plan)[i]
            IN  IF HasName(o) /\ o.name \in PlanOutputs(plan) THEN o.name
                ELSE LaterStages(plan, o)]

\* C9 amended: an explicit non-empty name decides alone: it is the key if it
\* is in the allowed-output set, and the compilation fails with an invalid
\* order key if it is not, without consulting the later stages; an entry
\* without a name is resolved by the first of stages (b) to (e) that yields a
\* name, and never fails with an invalid order key.
C9_CascadeNameDecides ==
  (Called /\ DirsValid(plan)) =>
    LET bad == { i \in DOMAIN RawOrder(plan) :
                   HasName(RawOrder(plan)[i])
                   /\ RawOrder(plan)[i].name \notin PlanOutputs(plan) }
    IN  /\ result.ok <=> bad = {}
        /\ bad # {} => result.err = "Invalid order key"
        /\ bad = {} =>
             Pieces(result.sql, "okey") =
               [i \in DOMAIN RawOrder(plan) |->
                  LET o == RawOrder(plan)[i]
                  IN  IF HasName(o) THEN o.name ELSE LaterStages(plan, o)]

\* an entry with a name outside the allowed-output set and an expr that would
\* resolve was rejected, and another entry was resolved by its index
C9_Witness ==
  /\ pc = "raised"
  /\ result.err = "Invalid order key"
  /\ \E i \in DOMAIN RawOrder(plan) :
       /\ Get(RawOrder(plan)[i], "name") = "zz"
       /\ Get(RawOrder(plan)[i], "expr") = "avg(Rating)"
       /\ "avg_rating" \in PlanAliases(plan)

-----------------------------------------------------------------------------
(* C5: the limit *)

EmittedLimit == Pieces(result.sql, "limit")

GivenLimit == IF "limit" \in DOMAIN plan THEN plan.limit ELSE PyMissing

\* C5 as claimed: the LIMIT is in 1..1000; a missing, non-integer or below-1
\* value gives 100, an integer above 1000 gives 1000, an integer in 1..1000
\* is emitted unchanged (a bool counts as the integer it is).
C5_NonIntegerGivesDefault ==
  (Called /\ result.ok) =>
    LET v == GivenLimit
    IN  /\ EmittedLimit \in { <<ToString(n)>> : n \in 1..1000 }
        /\ v.kind \notin {"int", "bool"} => EmittedLimit = <<"100">>
        /\ (v.kind = "int" /\ v.n < 1) => EmittedLimit = <<"100">>
        /\ (v.kind = "int" /\ v.n > 1000) => EmittedLimit = <<"1000">>
        /\ (v.kind = "int" /\ v.n \in 1..1000) => EmittedLimit = <<ToString(v.n)>>

\* C5 amended: the LIMIT is in 1..1000; a missing or None value, a value
\* int() cannot convert (a non-numeric string, an empty string or list) and a
\* value whose conversion is below 1 give 100 (so -5 gives 100, not 1); any
\* other value is converted by int() (an integer as itself, a numeric string
\* parsed, a float truncated toward zero, True as 1), then a result above 1000
\* gives 1000 and a result in 1..1000 is emitted unchanged.
C5_LimitBound ==
  (Called /\ result.ok) =>
    LET v == GivenLimit
        n == CASE v.kind \in {"int", "numstr", "float"} -> v.n
               [] v.kind = "bool" /\ v.b -> 1
               [] OTHER -> 0
    IN  /\ EmittedLimit \in { <<ToString(k)>> : k \in 1..1000 }
        /\ n < 1 => EmittedLimit = <<"100">>
        /\ n > 1000 => EmittedLimit = <<"1000">>
        /\ n \in 1..1000 => EmittedLimit = <<ToString(n)>>

\* the plan with limit -5 was compiled
C5_Witness ==
  /\ pc = "returned"
  /\ GivenLimit = PyInt(0 - LimitSpan)
  /\ EmittedLimit = <<"100">>

-----------------------------------------------------------------------------
(* C4, C6, C7: filters and bound parameters *)

\* the operator of a filter as the statement spells it
OpOf(f) == IF "op" \in DOMAIN f THEN Upper(f.op) ELSE ""

ValueOf(f) == IF "value" \in DOMAIN f THEN f.value ELSE PyNone

\* the parameter values filter f must contribute, in order
ExpectedValues(f) ==
  IF OpOf(f) \in {"IS NULL", "IS NOT NULL"} THEN <<>>
  ELSE IF OpOf(f) \in {"IN", "BETWEEN"}
    THEN [j \in DOMAIN ValueOf(f).items |-> PyScalar(ValueOf(f).items[j])]
  ELSE <<ValueOf(f)>>

RECURSIVE Flatten(_)
Flatten(ss) == IF ss = <<>> THEN <<>> ELSE Head(ss) \o Flatten(Tail(ss))

\* C6: the parameter mapping of a compiled plan holds, filter by filter in
\* plan order, no entry for IS NULL / IS NOT NULL, the N list elements in list
\* order for IN, low then high for BETWEEN (named p<i>a and p<i>b at position
\* i), the input value for any other operator (named p<i>), and nothing else.
C6_ParameterFidelity ==
  (Called /\ result.ok) =>
    /\ [i \in DOMAIN result.params |-> result.params[i].val]
         = Flatten([i \in DOMAIN plan.filters |-> ExpectedValues(plan.filters[i])])
    /\ \A i \in DOMAIN plan.filters :
         LET f == plan.filters[i]
             n == ToString(i - 1)
         IN  /\ OpOf(f) = "BETWEEN" =>
                  /\ \E k \in DOMAIN result.params :
                       result.params[k] = [key |-> "p" \o n \o "a", val |-> PyScalar(f.value.items[1])]
                  /\ \E k \in DOMAIN result.params :
                       result.params[k] = [key |-> "p" \o n \o "b", val |-> PyScalar(f.value.items[2])]
             /\ OpOf(f) \notin {"BETWEEN", "IN", "IS NULL", "IS NOT NULL"} =>
                  \E k \in DOMAIN result.params :
                    result.params[k] = [key |-> "p" \o n, val |-> ValueOf(f)]

\* a plan with a BETWEEN filter at position 0 and an IN filter was compiled
C6_Witness ==
  /\ pc = "returned"
  /\ Len(plan.filters) = MaxFilters
  /\ OpOf(plan.filters[1]) = "BETWEEN"
  /\ result.params[1] = [key |-> "p0a", val |-> PyScalar("a")]
  /\ result.params[2] = [key |-> "p0b", val |-> PyScalar("b")]
  /\ OpOf(plan.filters[2]) = "IN"
  /\ Len(plan.filters[2].value.items) = MaxInLen

\* C7: no two placeholders of a compiled statement share a name, each
\* placeholder names a key of the parameter mapping, and the mapping has as
\* many entries as the statement has placeholders.
C7_ParameterNamesUnique ==
  (Called /\ result.ok) =>
    LET phs == Pieces(result.sql, "ph")
    IN  /\ \A i, j \in DOMAIN phs : phs[i] = phs[j] => i = j
        /\ phs = [i \in DOMAIN result.params |-> ":" \o result.params[i].key]
        /\ Cardinality(Keys(result.params)) = Len(phs)

\* two filters that each emit more than one placeholder were compiled
C7_Witness ==
  /\ pc = "returned"
  /\ Len(plan.filters) = MaxFilters
  /\ \A i \in DOMAIN plan.filters : OpOf(plan.filters[i]) \in {"IN", "BETWEEN"}
  /\ \E i \in DOMAIN plan.filters :
       OpOf(plan.filters[i]) = "IN" /\ Len(plan.filters[i].value.items) = MaxInLen
  /\ Len(result.params) > MaxFilters

\* the plan with every filter value replaced by hostile text: a list keeps
\* its length under IN and BETWEEN
HostileValue == "' OR '1'='1"

SameShape(p) ==
  [p EXCEPT !.filters =
     [i \in DOMAIN p.filters |->
        LET f == p.filters[i]
        IN  IF OpOf(f) \in {"IN", "BETWEEN"} /\ ValueOf(f).kind = "list"
            THEN [column |-> f.column, op |-> f.op,
                  value |-> PyList([j \in DOMAIN f.value.items |-> HostileValue])]
            ELSE [column |-> f.column, op |-> f.op, value |-> PyScalar(HostileValue)]]]

\* C4: the statement of a compiled plan is built of literals, checked names,
\* operators and placeholders :p... only; none of its pieces is a filter
\* value, every filter value is a value of the parameter mapping, and the
\* plan with other filter values (lists of equal length) compiles to the same
\* text.
C4_ValuesNeverInText ==
  (Called /\ result.ok) =>
    /\ \A i \in DOMAIN result.sql :
         /\ result.sql[i].k \in {"lit", "dim", "agg", "mcol", "alias", "derived", "table",
                                 "fcol", "op", "ph", "okey", "dir", "limit"}
         /\ result.sql[i].k = "ph" =>
              \E k \in DOMAIN result.params : result.sql[i].t = ":" \o result.params[k].key
         /\ result.sql[i].t \notin Atoms
    /\ \A i \in DOMAIN plan.filters :
         \A j \in DOMAIN ExpectedValues(plan.filters[i]) :
           \E k \in DOMAIN result.params : result.params[k].val = ExpectedValues(plan.filters[i])[j]
    /\ compile_sql(SameShape(plan)).ok
    /\ Text(compile_sql(SameShape(plan)).sql) = Text(result.sql)

\* a plan with a scalar filter and an IN filter was compiled
C4_Witness ==
  /\ pc = "returned"
  /\ \E i \in DOMAIN plan.filters : OpOf(plan.filters[i]) = "=" /\ ValueOf(plan.filters[i]) = PyScalar("a")
  /\ \E i \in DOMAIN plan.filters :
       OpOf(plan.filters[i]) = "IN" /\ Len(plan.filters[i].value.items) = MaxInLen

-----------------------------------------------------------------------------
(* The producer's outputs offered to the pipeline *)

\* main.py lines 50-62: the prompts of main's loop
NumPrompts == 4

NoPlan == <<>>

\* output json.loads cannot parse
NotJson == [json |-> FALSE]

RawTables == {"employee", "users"}

RawMeasures ==
  { <<[name |-> "headcount", agg |-> "count", column |-> "*"]>>,
    <<[name |-> "", agg |-> "count", column |-> "*"]>>,
    <<[name |-> "n", agg |-> "Count_Distinct", column |-> "EmpID"],
      [name |-> "pay", agg |-> "avg", column |-> "PayRate"]>>,
    <<[name |-> "m", agg |-> "avg", column |-> "secret"]>>,
    <<>> }

RawOrders ==
  { <<>>,
    <<[dir |-> "asc"]>>,
    <<[expr |-> "", dir |-> "asc"], [expr |-> "EmpID"]>>,
    <<[expr |-> "headcount", dir |-> "desc"]>>,
    <<[index |-> PyInt(1), dir |-> "asc"]>>,
    <<[expr |-> "headcount", dir |-> "ASC"]>> }

RawFilters ==
  { <<>>,
    <<[col |-> "DepID", op |-> "gte", val |-> PyScalar("3")]>>,
    <<[column |-> "DepID", op |-> "in", value |-> PyList(<<"1", "2">>)],
      [column |-> "TermDt", op |-> "is null"]>>,
    <<[column |-> "DepID", op |-> ">=", value |-> PyScalar("3")]>> }

RawLimits == {PyMissing, PyInt(0 - 5), PyNumStr(7), PyInt(5000)}

RawDict(t, m, o, f, l) ==
  LET base == [table |-> t, measures |-> m, filters |-> f]
      d1   == IF o = <<>> THEN base ELSE SetKey(base, "order_by", o)
  IN  IF l = PyMissing THEN d1 ELSE SetKey(d1, "limit", l)

RawDicts ==
  { RawDict(t, m, o, f, l)
      : t \in RawTables, m \in RawMeasures, o \in RawOrders, f \in RawFilters, l \in RawLimits }
  \cup { [table |-> "employee", measures |-> <<[name |-> "headcount", agg |-> "count", column |-> "*"]>>,
          order_by |-> <<>>] }

RawOutputs == { [json |-> TRUE, d |-> d] : d \in RawDicts } \cup {NotJson}

-----------------------------------------------------------------------------
(* main.py: main and run_prompt; server.py: run_real; app/agents.py:       *)
(* compile_and_run                                                         *)

Callers == {"run_prompt", "run_real", "compile_and_run"}

Init ==
  /\ pc = "idle"
  /\ caller \in Callers
  /\ todo = IF caller = "run_prompt" THEN NumPrompts ELSE 1
  /\ raw = NotJson
  /\ plan = NoPlan
  /\ result = NoResult
  /\ executed = <<>>
  /\ done = {}
  /\ allowlist = ALLOWED

\* main.py line 13, server.py line 339: translator.run
Translate ==
  /\ pc = "idle"
  /\ caller \in {"run_prompt", "run_real"}
  /\ todo > 0
  /\ raw' \in RawOutputs
  /\ pc' = "translated"
  /\ plan' = NoPlan
  /\ result' = NoResult
  /\ executed' = <<>>
  /\ done' = {}
  /\ UNCHANGED <<caller, todo, allowlist>>

\* main.py line 17, server.py line 342: json.loads raises a JSONDecodeError,
\* which except ValidationError does not catch
Normalize ==
  /\ pc = "translated"
  /\ IF raw.json
       THEN /\ plan' = normalize_plan_json(raw.d)
            /\ pc' = "normalized"
            /\ done' = done \cup {"normalize"}
       ELSE /\ plan' = plan
            /\ pc' = "crashed"
            /\ done' = done
  /\ UNCHANGED <<caller, todo, raw, result, executed, allowlist>>

\* main.py lines 18-23, server.py lines 343-345
Validate ==
  /\ pc = "normalized"
  /\ IF ValidateOk(plan)
       THEN /\ plan' = ValidatedDump(plan)
            /\ pc' = "validated"
            /\ done' = done \cup {"validate"}
       ELSE /\ plan' = plan
            /\ pc' = "rejected"
            /\ done' = done
  /\ UNCHANGED <<caller, todo, raw, result, executed, allowlist>>

\* agents.py lines 98-99: the tool is called with a QueryPlan, which the
\* agent framework has built by validating the arguments the model gave
ToolCall ==
  /\ pc = "idle"
  /\ caller = "compile_and_run"
  /\ todo > 0
  /\ \E d \in RawDicts :
       /\ ValidateOk(d)
       /\ raw' = [json |-> TRUE, d |-> d]
       /\ plan' = ValidatedDump(d)
  /\ pc' = "validated"
  /\ done' = {"validate"}
  /\ result' = NoResult
  /\ executed' = <<>>
  /\ UNCHANGED <<caller, todo, allowlist>>

\* Compile going on to run_query although compile_sql raised
Compile_IgnoreFailure ==
  /\ pc = "validated"
  /\ result' = compile_sql(plan)
  /\ pc' = "compiled"
  /\ done' = done \cup {"compile"}
  /\ UNCHANGED <<caller, todo, raw, plan, executed, allowlist>>

\* main.py line 26 (inside try), server.py line 347, agents.py line 100
Compile ==
  /\ pc = "validated"
  /\ result' = compile_sql(plan)
  /\ IF result'.ok
       THEN pc' = "compiled" /\ done' = done \cup {"compile"}
       ELSE pc' = (IF caller = "run_prompt" THEN "failed" ELSE "crashed") /\ done' = done
  /\ UNCHANGED <<caller, todo, raw, plan, executed, allowlist>>

\* main.py line 27, server.py line 348, agents.py line 101
RunQuery ==
  /\ pc = "compiled"
  /\ executed' = Append(executed, [sql |-> result.sql, params |-> result.params])
  /\ pc' = "executed"
  /\ UNCHANGED <<caller, todo, raw, plan, result, done, allowlist>>

\* main.py lines 23, 41, 46, 64-65; server.py lines 345, 356; agents.py line 101
Return ==
  /\ pc \in {"rejected", "failed", "executed"}
  /\ todo' = todo - 1
  /\ pc' = "idle"
  /\ UNCHANGED <<caller, raw, plan, result, executed, done, allowlist>>

Next == Translate \/ Normalize \/ Validate \/ ToolCall \/ Compile \/ RunQuery \/ Return

Spec == Init /\ [][Next]_vars

-----------------------------------------------------------------------------
(* C8: what reaches run_query *)

\* C8 as claimed: in every caller a run_query call is made only after
\* normalization, validation and compilation of the request's plan succeeded,
\* with exactly what compile_sql returned; after a failure nothing is sent.
C8_RunQueryAfterAllThreeStages ==
  /\ executed # <<>> =>
       /\ {"normalize", "validate", "compile"} \subseteq done
       /\ result.ok
       /\ executed = <<[sql |-> result.sql, params |-> result.params]>>
  /\ pc \in {"crashed", "rejected", "failed"} => executed = <<>>

\* C8 amended: in run_prompt and run_real a run_query call is made only after
\* normalization, validation and compilation of the request's plan succeeded;
\* in compile_and_run only after validation (of the tool's QueryPlan argument)
\* and compilation, no normalization being run there; in every caller the
\* call carries exactly the statement and parameters compile_sql returned for
\* the validated plan, and after a failure of any stage nothing is sent.
C8_RunQueryAfterCompile ==
  /\ executed # <<>> =>
       /\ {"validate", "compile"} \subseteq done
       /\ caller \in {"run_prompt", "run_real"} =>
            /\ "normalize" \in done
            /\ raw.json
            /\ ValidateOk(normalize_plan_json(raw.d))
            /\ plan = ValidatedDump(normalize_plan_json(raw.d))
       /\ caller = "compile_and_run" =>
            /\ "normalize" \notin done
            /\ ValidateOk(raw.d)
            /\ plan = ValidatedDump(raw.d)
       /\ result.ok
       /\ result = compile_sql(plan)
       /\ executed = <<[sql |-> result.sql, params |-> result.params]>>
  /\ pc \in {"crashed", "rejected", "failed"} => executed = <<>>
  /\ pc \in {"crashed", "failed"} /\ "validate" \in done => ~result.ok

\* the executor tool has sent a statement with bound parameters to run_query
C8_Witness ==
  /\ pc = "executed"
  /\ caller = "compile_and_run"
  /\ Len(executed) = 1
  /\ executed[1].params # <<>>

-----------------------------------------------------------------------------
(* C10: order-by defaulting in the Validator *)

RawOrderBy == IF "order_by" \in DOMAIN raw.d THEN raw.d.order_by ELSE <<>>

\* C10: the order_by of a validated plan is non-empty and every entry carries
\* a non-empty reference; an empty or missing order_by becomes the single
\* entry (first measure's name, desc); an entry given without a reference
\* points at the first measure's name and keeps its direction; and a plan
\* with no order_by and the one measure headcount compiles to
\* ORDER BY headcount DESC.
C10_OrderByDefaulting ==
  /\ pc = "validated" =>
       /\ plan.order_by # <<>>
       /\ \A i \in DOMAIN plan.order_by : plan.order_by[i].expr \notin {None, ""}
       /\ RawOrderBy = <<>> =>
            plan.order_by = <<[expr |-> raw.d.measures[1].name, dir |-> "desc"]>>
       /\ RawOrderBy # <<>> =>
            /\ Len(plan.order_by) = Len(RawOrderBy)
            /\ \A i \in DOMAIN RawOrderBy :
                 /\ plan.order_by[i].dir = (IF "dir" \in DOMAIN RawOrderBy[i]
                                            THEN RawOrderBy[i].dir ELSE "desc")
                 /\ plan.order_by[i].expr =
                      IF "expr" \in DOMAIN RawOrderBy[i] /\ RawOrderBy[i].expr # ""
                      THEN RawOrderBy[i].expr ELSE raw.d.measures[1].name
  /\ (pc = "compiled" /\ RawOrderBy = <<>> /\ Len(plan.measures) = 1
      /\ plan.measures[1].name = "headcount") =>
       /\ Pieces(result.sql, "okey") = <<"headcount">>
       /\ Pieces(result.sql, "dir") = <<"DESC">>

-----------------------------------------------------------------------------
(* One request of run_real, from the moment translator.run has returned:   *)
(* the producer's output goes through normalize_plan_json, validation,     *)
(* compile_sql and run_query.                                              *)

\* --- outputs that exercise the normalizer's repairs
RepairMeasures ==
  { <<[name |-> "promos", agg |-> "sum", column |-> "CASE WHEN ActionID = 3 THEN 1 END"]>>,
    <<[name |-> "n", agg |-> "count", column |-> "*"]>>,
    <<[name |-> "total", agg |-> "sum", column |-> "*"]>>,
    <<[name |-> "n", agg |-> "count_distinct", column |-> "EmpID"]>>,
    <<[name |-> "n", agg |-> "Count_Distinct", column |-> "EmpID"],
      [name |-> "hi", agg |-> "max", column |-> "*"]>>,
    <<[name |-> "a", agg |-> "AVG", column |-> "EmpID"]>>,
    <<[name |-> "a", agg |-> "median", column |-> "EmpID"]>> }

RepairOps ==
  {"gte", "GTE", "lte", "LTE", "in", "In", "IN", "between", "BETWEEN",
   "like", "LIKE", "=", ">=", "<>", "is null"}

RepairFilters ==
  { <<>>,
    <<[column |-> "EmpID", value |-> PyList(<<"1", "2">>)]>>,
    <<[col |-> "EmpID", op |-> "lte", val |-> PyScalar("3")]>>,
    <<[expr |-> "EmpID", op |-> "=", value |-> PyScalar("3")],
      [column |-> "EmpID", op |-> "between", value |-> PyList(<<"1", "2">>)]>> }
  \cup { <<[column |-> "EmpID", op |-> o, value |-> PyList(<<"1", "2">>)]>> : o \in RepairOps }

RepairDicts ==
  { [table |-> t, measures |-> m, filters |-> f]
      : t \in DOMAIN ALLOWED, m \in RepairMeasures, f \in RepairFilters }

\* --- outputs that exercise the Validator's order_by and limit handling
OrderByMeasures ==
  { <<[name |-> "headcount", agg |-> "count", column |-> "*"]>>,
    <<[name |-> "n", agg |-> "count", column |-> "EmpID"],
      [name |-> "pay", agg |-> "avg", column |-> "PayRate"]>> }

OrderByEntries ==
  { <<[dir |-> "asc"]>>,
    <<[expr |-> "headcount", dir |-> "ASC"]>>,
    <<[expr |-> "headcount", dir |-> "Desc"]>>,
    <<[expr |-> "headcount", dir |-> "DESC"]>>,
    <<[expr |-> "headcount", dir |-> "up"]>>,
    <<[expr |-> "pay", dir |-> "desc"]>>,
    <<[expr |-> "n", dir |-> "asc"], [expr |-> "pay", dir |-> "Asc"]>>,
    <<[name |-> "pay", dir |-> "asc"]>>,
    <<[index |-> PyInt(1), dir |-> "asc"]>>,
    <<[index |-> PyInt(0)]>>,
    <<[column |-> "PayRate", agg |-> "avg", dir |-> "asc"]>> }

OrderByLimits == {PyMissing, PyInt(10), PyNumStr(7), PyInt(5000)}

OrderByDicts ==
  { LET d == [table |-> "employee", measures |-> m, order_by |-> o]
    IN  IF l = PyMissing THEN d ELSE SetKey(d, "limit", l)
      : m \in OrderByMeasures, o \in OrderByEntries \cup {<<>>}, l \in OrderByLimits }
  \cup { [table |-> "employee", measures |-> m] : m \in OrderByMeasures }

RequestOutputs ==
  { [json |-> TRUE, d |-> d] : d \in RepairDicts \cup OrderByDicts } \cup {NotJson}

\* server.py lines 339-340: raw_output = t_res.output
InitRequest ==
  /\ pc = "translated"
  /\ caller = "run_real"
  /\ todo = 1
  /\ raw \in RequestOutputs
  /\ plan = NoPlan
  /\ result = NoResult
  /\ executed = <<>>
  /\ done = {}
  /\ allowlist = ALLOWED

NextRequest == Normalize \/ Validate \/ Compile \/ RunQuery \/ Return

SpecRequest == InitRequest /\ [][NextRequest]_vars

\* the plan normalize_plan_json returned for the request at hand
Normalized == normalize_plan_json(raw.d)

\* the order_by list of a plan dict ([] when the key is missing)
OrderByOf(d) == IF "order_by" \in DOMAIN d THEN d.order_by ELSE <<>>

-----------------------------------------------------------------------------
(* C11: direction case folding in the Validator *)

\* d with every order_by direction lower-cased
FoldDirs(d) ==
  IF "order_by" \notin DOMAIN d THEN d
  ELSE [d EXCEPT !.order_by =
          [i \in DOMAIN d.order_by |->
             IF "dir" \in DOMAIN d.order_by[i]
             THEN [d.order_by[i] EXCEPT !.dir = Lower(d.order_by[i].dir)]
             ELSE d.order_by[i]]]

\* C11: an order_by entry whose direction is a case variant of asc or desc
\* passes validation and its validated direction is the lower-cased value:
\* a plan is never rejected when the same plan with its directions
\* lower-cased would have been accepted.
C11_DirectionCaseFolded ==
  /\ pc = "rejected" => ~ValidateOk(FoldDirs(plan))
  /\ pc = "validated" =>
       \A i \in DOMAIN OrderByOf(raw.d) :
         "dir" \in DOMAIN raw.d.order_by[i] =>
           plan.order_by[i].dir = Lower(raw.d.order_by[i].dir)

-----------------------------------------------------------------------------
(* C12: the wildcard measure column *)

\* the aggregations the statement applies to the wildcard: AGG(*)
WildcardAggs(sql) ==
  { sql[k].t : k \in { j \in 1..(Len(sql) - 2) : sql[j].k = "agg" /\ sql[j+2] = Lit("*") } }

\* C12: a plan with a measure on the wildcard column '*' gets through the
\* pipeline only when that measure's aggregation is count, and then compiles
\* to COUNT(*); no statement applies SUM, AVG, MIN or MAX to '*'.
C12_WildcardOnlyWithCount ==
  pc \in {"compiled", "executed"} =>
    /\ \A i \in DOMAIN plan.measures :
         plan.measures[i].column = "*" => plan.measures[i].agg = "count"
    /\ WildcardAggs(result.sql) \subseteq {"COUNT"}
    /\ (\E i \in DOMAIN plan.measures : plan.measures[i].column = "*")
         => "COUNT" \in WildcardAggs(result.sql)

-----------------------------------------------------------------------------
(* Plans for a direct call that pass or fail each check of compile_sql *)

CheckTables == {"join_emp_perf", "users"}

CheckDims ==
  { PyMissing, PyList(<<>>), PyList(<<"Year">>), PyList(<<"Year", "Rating", "Year">>),
    PyList(<<"secret">>), PyText("Year") }

CheckMeasures ==
  { <<>>,
    <<[name |-> "avg_rating", agg |-> "avg", column |-> "Rating"]>>,
    <<[agg |-> "count", column |-> "*"], [name |-> "n_rows", agg |-> "COUNT", column |-> "*"]>>,
    <<[agg |-> "median", column |-> "secret"]>>,
    <<[name |-> "avg_rating", agg |-> "avg", column |-> "Rating"],
      [agg |-> "avg", column |-> "secret"]>>,
    <<[name |-> "m", agg |-> "avg", column |-> "secret"],
      [agg |-> "median", column |-> "Rating"]>> }

CheckFilters ==
  { <<>>,
    <<[column |-> "Year", op |-> "=", value |-> PyScalar("a")]>>,
    <<[column |-> "Year", op |-> "in", value |-> PyList(<<"a", "b">>)],
      [column |-> "Rating", op |-> "BETWEEN", value |-> PyList(<<"a", "b">>)]>>,
    <<[column |-> "secret", op |-> "<>", value |-> PyScalar("a")]>>,
    <<[column |-> "Year", op |-> "<>", value |-> PyScalar("a")]>>,
    <<[column |-> "Year", op |-> "IN", value |-> PyScalar("a")]>>,
    <<[column |-> "Year", op |-> "BETWEEN", value |-> PyList(<<"a">>)],
      [column |-> "secret", op |-> "=", value |-> PyScalar("a")]>> }

CheckOrders ==
  { <<>>,
    <<[expr |-> "Year", dir |-> "asc"]>>,
    <<[name |-> "avg_rating"], [expr |-> "Year", dir |-> "Asc"]>>,
    <<[name |-> "zz", dir |-> "up"]>>,
    <<[name |-> "avg_rating", dir |-> "up"]>>,
    <<[dir |-> "up"], [name |-> "zz"]>> }

CheckLimits == {PyMissing, PyInt(10)}

CheckPlan(t, d, m, f, o, l) ==
  LET p1 == [table |-> t, measures |-> m, filters |-> f, order_by |-> o]
      p2 == IF d = PyMissing THEN p1 ELSE SetKey(p1, "dimensions", d)
  IN  IF l = PyMissing THEN p2 ELSE SetKey(p2, "limit", l)

CheckPlans ==
  { CheckPlan(t, d, m, f, o, l)
      : t \in CheckTables, d \in CheckDims, m \in CheckMeasures, f \in CheckFilters,
        o \in CheckOrders, l \in CheckLimits }
  \cup {TestPlan}

InitCheck == InitDirect(CheckPlans)

SpecCheck == InitCheck /\ [][NextDirect]_vars

-----------------------------------------------------------------------------
(* C13: statement assembly *)

\* sep.join(ss) of strings
RECURSIVE JoinStr(_, _)
JoinStr(ss, sep) ==
  IF ss = <<>> THEN ""
  ELSE IF Len(ss) = 1 THEN ss[1]
  ELSE ss[1] \o sep \o JoinStr(Tail(ss), sep)

\* the elements of s at their first occurrence, in order
FirstSeen(s) ==
  LET F[i \in 0..Len(s)] ==
        IF i = 0 THEN <<>>
        ELSE IF \E j \in 1..(i-1) : s[j] = s[i] THEN F[i-1] ELSE Append(F[i-1], s[i])
  IN  F[Len(s)]

\* AGG(col) AS alias of the measure at position i
MeasureText(p, i) ==
  Upper(Lower(p.measures[i].agg)) \o "(" \o p.measures[i].column \o ") AS " \o AliasAt(p, i)

\* the statement the plan at hand is to compile to, clause by clause
AssembledText ==
  LET dims    == FirstSeen(DimsIn(plan).items)
      sel     == dims \o [i \in DOMAIN plan.measures |-> MeasureText(plan, i)]
      filters == GetList(plan, "filters")
      frags   == [i \in DOMAIN filters |-> Text(FilterClause(filters[i], i-1))]
      keys    == Pieces(result.sql, "okey")
      dirs    == Pieces(result.sql, "dir")
      entries == [i \in DOMAIN RawOrder(plan) |-> keys[i] \o " " \o dirs[i]]
  IN  "SELECT " \o JoinStr(sel, ", ") \o " FROM " \o plan.table
      \o (IF filters # <<>> THEN " WHERE " \o JoinStr(frags, " AND ") ELSE "")
      \o (IF dims # <<>> THEN " GROUP BY " \o JoinStr(dims, ", ") ELSE "")
      \o (IF entries # <<>> THEN " ORDER BY " \o JoinStr(entries, ", ") ELSE "")
      \o " LIMIT " \o EmittedLimit[1]

\* C13: a compiled statement is SELECT <first-seen dimensions, then one
\* AGG(col) AS alias per measure> FROM <table>, then WHERE (iff there is a
\* filter; fragments joined by AND in filter order), GROUP BY (iff there is a
\* dimension; same order as SELECT), ORDER BY (iff there is an order-by
\* entry; entries comma-joined in order) and LIMIT n, in this order; and the
\* scenario-1 plan compiles to the statement of the spec with no parameters.
C13_StatementAssembly ==
  /\ (Called /\ result.ok) =>
       /\ Len(Pieces(result.sql, "okey")) = Len(RawOrder(plan))
       /\ Len(Pieces(result.sql, "dir")) = Len(RawOrder(plan))
       /\ Len(EmittedLimit) = 1
       /\ Text(result.sql) = AssembledText
  /\ (Called /\ plan = TestPlan) =>
       /\ result.ok
       /\ Text(result.sql) = "SELECT Year, AVG(Rating) AS avg_rating FROM join_emp_perf"
                             \o " GROUP BY Year ORDER BY Year ASC LIMIT 10"
       /\ result.params = <<>>

\* a statement with every clause has been compiled: a repeated dimension,
\* two filters and two order-by entries
C13_Witness ==
  /\ pc = "returned"
  /\ Len(DimsIn(plan).items) = 3
  /\ Len(plan.filters) = 2
  /\ Len(RawOrder(plan)) = 2
  /\ "limit" \notin DOMAIN plan

-----------------------------------------------------------------------------
(* C14: validating a validated plan again *)

\* the plan carries an explicit order_by, every entry with a reference and a
\* direction, and an explicit integer limit in 1..1000
Canonical(d) ==
  /\ "order_by" \in DOMAIN d /\ d.order_by # <<>>
  /\ \A i \in DOMAIN d.order_by :
       DOMAIN d.order_by[i] = {"expr", "dir"} /\ Truthy(d.order_by[i].expr)
  /\ "limit" \in DOMAIN d /\ d.limit.kind = "int" /\ d.limit.n \in 1..1000

\* C14: the dump of a validated plan passes validation again and validates
\* to itself (table, intent, dimensions, measures, filters, order_by, limit);
\* and a canonical plan comes out of validation with the table, measures,
\* filters, order_by and limit it went in with.
C14_ValidationIdempotent ==
  "validate" \in done =>
    /\ ValidateOk(plan)
    /\ ValidatedDump(plan) = plan
    /\ Canonical(Normalized) =>
         /\ plan.table = Normalized.table
         /\ plan.measures = Normalized.measures
         /\ plan.order_by = Normalized.order_by
         /\ plan.limit = Normalized.limit
         /\ Len(plan.filters) = Len(GetList(Normalized, "filters"))
         /\ \A i \in DOMAIN plan.filters :
              /\ plan.filters[i].column = Normalized.filters[i].column
              /\ plan.filters[i].op = Normalized.filters[i].op
              /\ plan.filters[i].value = GetVal(Normalized.filters[i], "value")

\* a plan whose order_by reference and limit the Validator had to fill in and
\* clamp has been validated
C14_Witness ==
  /\ pc = "validated"
  /\ OrderByOf(raw.d) = <<[dir |-> "asc"]>>
  /\ GetVal(raw.d, "limit") = PyInt(5000)
  /\ plan.order_by = <<[expr |-> "n", dir |-> "asc"]>>
  /\ plan.limit = PyInt(1000)

-----------------------------------------------------------------------------
(* C15: operator repair in the Normalizer *)

\* the raw op of a filter ("" when it has none)
RawOp(f) == IF "op" \in DOMAIN f THEN f.op ELSE ""

\* what the repair is to make of each raw op the outputs carry
RepairedOp(op) ==
  CASE op \in {"gte", "GTE"}         -> ">="
    [] op \in {"lte", "LTE"}         -> "<="
    [] op \in {"in", "In", "IN"}     -> "IN"
    [] op \in {"between", "BETWEEN"} -> "BETWEEN"
    [] op \in {"like", "LIKE"}       -> "LIKE"
    [] op = "is null"                -> "IS NULL"
    [] OTHER                         -> op      \* "=", ">=", "<>", ""

\* C15: after normalize_plan_json every filter's op is '>=' for a raw op that
\* lower-cases to 'gte', '<=' for 'lte', 'IN' for 'in', 'BETWEEN' for
\* 'between', and the upper-cased raw op otherwise; no filter is dropped or
\* refused for its operator; and normalizing the result again changes no
\* filter.
C15_OperatorRepair ==
  /\ (raw.json /\ pc # "translated") => "normalize" \in done
  /\ (pc = "normalized" /\ "filters" \in DOMAIN raw.d) =>
       /\ Len(plan.filters) = Len(raw.d.filters)
       /\ \A i \in DOMAIN raw.d.filters :
            plan.filters[i].op = RepairedOp(RawOp(raw.d.filters[i]))
       /\ normalize_plan_json(plan).filters = plan.filters

\* an informally spelled operator in upper case has been repaired
C15_Witness ==
  /\ pc = "normalized"
  /\ "filters" \in DOMAIN raw.d
  /\ Len(raw.d.filters) = 1
  /\ RawOp(raw.d.filters[1]) = "GTE"
  /\ plan.filters[1].op = ">="

-----------------------------------------------------------------------------
(* C16: the fallback column for a conditional-expression measure column *)

\* the request's raw plan has a measure whose column holds the keyword
HasConditionalMeasure ==
  /\ raw.json
  /\ \E i \in DOMAIN raw.d.measures : HasCaseWhen(raw.d.measures[i].column)

\* C16: for a raw plan on a table of ALLOWED with a measure whose column
\* contains CASE WHEN, normalize_plan_json puts the fallback column in its
\* place, the fallback is a column of the plan's table, and so compile_sql
\* does not refuse the repaired measure for its column.
C16_FallbackColumnPermitted ==
  (HasConditionalMeasure /\ raw.d.table \in DOMAIN ALLOWED) =>
    /\ pc = "normalized" =>
         \A i \in DOMAIN raw.d.measures :
           HasCaseWhen(raw.d.measures[i].column) =>
             /\ plan.measures[i].column = "ActionID"
             /\ plan.measures[i].column \in Cols(plan.table)
    /\ "validate" \in done => result.err # "Invalid column in measure"

-----------------------------------------------------------------------------
(* C17: aggregations of a normalized and validated plan *)

\* C17: in a plan that has passed normalize_plan_json and validation every
\* measure's aggregation is one of sum, avg, min, max, count, a count_distinct
\* in any letter case having become count; so compile_sql never refuses such
\* a plan with the invalid-aggregation error.
C17_AggregationsCompilable ==
  "validate" \in done =>
    /\ \A i \in DOMAIN plan.measures :
         /\ plan.measures[i].agg \in {"sum", "avg", "min", "max", "count"}
         /\ raw.d.measures[i].agg \in {"count_distinct", "Count_Distinct", "COUNT_DISTINCT"}
              => plan.measures[i].agg = "count"
    /\ result.err # "Invalid aggregation"

\* a plan that asked for Count_Distinct has been compiled
C17_Witness ==
  /\ pc = "compiled"
  /\ raw.d.measures[1].agg = "Count_Distinct"
  /\ plan.measures[1].agg = "count"

-----------------------------------------------------------------------------
(* C18: order-by entries given by index or by {column, agg} *)

\* the entry gives nothing but a position in the measures list
IndexOnly(o) ==
  "index" \in DOMAIN o /\ DOMAIN o \cap {"name", "expr", "column", "agg"} = {}

\* the entry gives nothing but a {column, agg} pair
PairOnly(o) ==
  {"column", "agg"} \subseteq DOMAIN o /\ DOMAIN o \cap {"name", "expr", "index"} = {}

\* the positions of the measures the pair of o matches
Matching(p, o) ==
  { j \in DOMAIN p.measures :
      p.measures[j].column = o.column /\ p.measures[j].agg = Lower(o.agg) }

\* C18: when a plan is validated and then compiled, an order-by entry given
\* only as {index: k}, with at least k+1 measures, orders by the alias of the
\* measure at position k, and an entry given only as a {column, agg} pair
\* orders by the alias of the matching measure.
C18_OrderReferenceFormsKept ==
  pc = "compiled" =>
    \A i \in DOMAIN OrderByOf(raw.d) :
      LET o == raw.d.order_by[i]
      IN  /\ (IndexOnly(o) /\ IntOf(o.index).n \in 0..(Len(plan.measures) - 1)) =>
               Pieces(result.sql, "okey")[i] = AliasAt(plan, IntOf(o.index).n + 1)
          /\ (PairOnly(o) /\ Matching(plan, o) # {}) =>
               Pieces(result.sql, "okey")[i] = AliasAt(plan, Min(Matching(plan, o)))

-----------------------------------------------------------------------------
(* C19: failures of the normalize and validate stages in run_prompt *)

\* C19: in run_prompt a failure of normalize_plan_json or of validation is
\* caught and reported for that prompt: nothing is compiled or executed for
\* it, and no such failure leaves run_prompt (so that main goes on with the
\* prompts that remain; an error that leaves run_prompt ends main's loop).
C19_StageFailuresRecovered ==
  caller = "run_prompt" =>
    /\ pc # "crashed"
    /\ pc = "rejected" => (result = NoResult /\ executed = <<>>)

-----------------------------------------------------------------------------
(* C20: the order of compile_sql's checks *)

\* the checks a plan can violate, one predicate per check
TableBad(p) == "table" \notin DOMAIN p \/ p.table \notin DOMAIN ALLOWED

DimsNotList(p) == DimsIn(p).kind # "list"

DimBad(p) == \E i \in DOMAIN DimsIn(p).items : DimsIn(p).items[i] \notin Cols(p.table)

AggBad(m) == Lower(m.agg) \notin _VALID_AGGS

ColumnBad(p, m) == m.column # "*" /\ m.column \notin Cols(p.table)

FilterColumnBad(p, f) == f.column \notin Cols(p.table)

FilterOpBad(f) == Upper(f.op) \notin _VALID_OPS

InShapeBad(f) ==
  Upper(f.op) = "IN" /\ (f.value.kind # "list" \/ Len(f.value.items) = 0)

BetweenShapeBad(f) ==
  Upper(f.op) = "BETWEEN" /\ (f.value.kind # "list" \/ Len(f.value.items) # 2)

\* the key check is violated by an entry that names a key outside the plan's
\* outputs; an entry without a name resolves to an output (at the last to the
\* first measure's alias) and cannot violate it
OrderKeyBad(p, o) ==
  "name" \in DOMAIN o /\ o.name # "" /\ o.name \notin PlanOutputs(p)

OrderDirBad(o) == "dir" \in DOMAIN o /\ Upper(o.dir) \notin {"ASC", "DESC"}

\* the error of the earliest violated check, "" when no check is violated
EarliestError(p) ==
  LET ms   == GetList(p, "measures")
      fs   == GetList(p, "filters")
      os   == RawOrder(p)
      badM == { i \in DOMAIN ms : AggBad(ms[i]) \/ ColumnBad(p, ms[i]) }
      badF == { i \in DOMAIN fs : \/ FilterColumnBad(p, fs[i]) \/ FilterOpBad(fs[i])
                                  \/ InShapeBad(fs[i]) \/ BetweenShapeBad(fs[i]) }
      badO == { i \in DOMAIN os : OrderKeyBad(p, os[i]) \/ OrderDirBad(os[i]) }
  IN  IF TableBad(p) THEN "Invalid table"
      ELSE IF DimsNotList(p) THEN "dimensions must be a list"
      ELSE IF DimBad(p) THEN "Invalid dimension"
      ELSE IF ms = <<>> THEN "At least one measure is required"
      ELSE IF badM # {}
        THEN IF AggBad(ms[Min(badM)]) THEN "Invalid aggregation" ELSE "Invalid column in measure"
      ELSE IF badF # {}
        THEN LET f == fs[Min(badF)]
             IN  IF FilterColumnBad(p, f) THEN "Invalid column in filter"
                 ELSE IF FilterOpBad(f) THEN "Invalid operator"
                 ELSE IF InShapeBad(f) THEN "IN requires a non-empty list"
                 ELSE "BETWEEN requires [low, high]"
      ELSE IF badO # {}
        THEN IF OrderKeyBad(p, os[Min(badO)]) THEN "Invalid order key"
             ELSE "order_by.dir must be ASC or DESC"
      ELSE ""

\* C20: compile_sql checks the table, then the dimensions, then the measures
\* (non-empty; then measure by measure the aggregation, then the column),
\* then the filters in list order (column, operator, value shape), then the
\* order-by entries in list order (key, direction); a plan violating several
\* checks gets the error of the earliest one, a plan violating none compiles,
\* and a failed call returns neither statement text nor parameters.
C20_FailFastInCheckOrder ==
  Called =>
    /\ result.ok <=> EarliestError(plan) = ""
    /\ result.err = EarliestError(plan)
    /\ ~result.ok => (result.sql = <<>> /\ result.params = <<>>)

\* a plan with a bad filter column, a bad operator in the same filter and a
\* bad order-by entry has been refused
C20_Witness ==
  /\ pc = "raised"
  /\ result.err = "Invalid column in filter"
  /\ plan.filters = <<[column |-> "secret", op |-> "<>", value |-> PyScalar("a")]>>
  /\ plan.order_by = <<[name |-> "zz", dir |-> "up"]>>

-----------------------------------------------------------------------------
(* A sequence of compile_sql calls in one process, each on a plan of its   *)
(* own: the module-level ALLOWED is shared by all of them.                 *)

CallPlans ==
  { CheckPlan(t, d, m, <<>>, o, PyMissing)
      : t \in CheckTables,
        d \in {PyMissing, PyList(<<"Year", "Rating", "Year">>)},
        m \in CheckMeasures,
        o \in {<<>>, <<[name |-> "avg_rating"], [expr |-> "Year", dir |-> "Asc"]>>} }
  \cup {TestPlan}

InitCalls ==
  /\ pc = "call"
  /\ caller = "compiler_testing"
  /\ todo = MaxCalls
  /\ raw = <<>>
  /\ plan \in CallPlans
  /\ result = NoResult
  /\ executed = <<>>
  /\ done = {}
  /\ allowlist = ALLOWED

\* the caller goes on to its next call, with another plan
NextCall ==
  /\ pc \in {"returned", "raised"}
  /\ caller = "compiler_testing"
  /\ todo > 1
  /\ todo' = todo - 1
  /\ plan' \in CallPlans
  /\ result' = NoResult
  /\ pc' = "call"
  /\ UNCHANGED <<caller, raw, executed, done, allowlist>>

NextCalls == CallCompile \/ NextCall

SpecCalls == InitCalls /\ [][NextCalls]_vars

-----------------------------------------------------------------------------
(* C21: compile_sql and shared state *)

-----------------------------------------------------------------------------
(* One request of run_real whose plan carries each form of limit *)

LimitDicts ==
  { [table |-> "employee",
     measures |-> <<[name |-> "headcount", agg |-> "count", column |-> "*"]>>,
     limit |-> v] : v \in LimitValues }
  \cup { [table |-> "employee",
          measures |-> <<[name |-> "headcount", agg |-> "count", column |-> "*"]>>] }

InitLimitRequest ==
  /\ pc = "translated"
  /\ caller = "run_real"
  /\ todo = 1
  /\ raw \in { [json |-> TRUE, d |-> d] : d \in LimitDicts }
  /\ plan = NoPlan
  /\ result = NoResult
  /\ executed = <<>>
  /\ done = {}
  /\ allowlist = ALLOWED

SpecLimitRequest == InitLimitRequest /\ [][NextRequest]_vars

-----------------------------------------------------------------------------
(* C22: the Validator's limit coercion and the Compiler's limit clamp *)

\* the limit the Validator gives a plan dict (models.py line 34 when the key
\* is missing, _coerce_limit otherwise)
ValidatorLimit(d) == IF "limit" \in DOMAIN d THEN _coerce_limit(d.limit) ELSE 100

\* C22: for every raw limit value (missing, None, "", 0, "0", False, True,
\* an empty list or mapping, a non-numeric string, a numeric string, a float,
\* negative, in range, above 1000) the Validator's coercion and the
\* Compiler's clamp compute the same integer, and the Compiler's clamp
\* leaves the limit of every validated plan as it is.
C22_LimitCoercionsAgree ==
  raw.json =>
    /\ ValidatorLimit(raw.d) = CompileLimit(raw.d)
    /\ "validate" \in done =>
         /\ plan.limit = PyInt(CompileLimit(raw.d))
         /\ CompileLimit(plan) = plan.limit.n
    /\ pc = "compiled" => EmittedLimit = <<ToString(plan.limit.n)>>

\* a plan whose limit was the string "0" has been validated and compiled
C22_Witness ==
  /\ pc = "compiled"
  /\ GetVal(raw.d, "limit") = PyNumStr(0)
  /\ plan.limit = PyInt(100)
  /\ EmittedLimit = <<"100">>

====
